---- MODULE Spec2Model ----
(***************************************************************************)
(* llm-spend: extraction of usage events from Claude Code JSONL logs, the  *)
(* price table and cost formula, and the aggregation queries served from   *)
(* the in-memory event cache.                                              *)
(*                                                                         *)
(* Strings whose characters matter (model names, timestamps, dates) are    *)
(* sequences of one-character strings, so that toLowerCase, the date-suffix*)
(* regular expressions, startsWith and the lexical comparison of           *)
(* timestamps are computed on characters.  Identifiers that are only ever  *)
(* compared for equality (request ids, session ids, paths) are atoms.      *)
(*                                                                         *)
(* Money is exact: a cost is [micro, nano], worth micro * 10^-6 USD plus   *)
(* nano * 10^-9 USD with 0 <= nano < 1000; rates are in thousandths of a   *)
(* USD per million tokens, so tokens * rate is a whole number of nano-USD. *)
(* The rounding of JavaScript's double arithmetic is not modelled.         *)
(***************************************************************************)
EXTENDS Integers, Sequences, FiniteSets, TLC

VARIABLES
  disk,          \* the log directory: a sequence of slug directories
  clock,         \* wall clock, read by new Date() when a record has no timestamp
  cachedEvents,  \* server.js cachedEvents: the loaded collection, or Unloaded
  loadedFrom,    \* the directory contents and clock the cache was loaded from
  resp,          \* the request being answered and its response, or NoResp
  call           \* pricing.js: the exported function being called, with its result

vars == <<disk, clock, cachedEvents, loadedFrom, resp, call>>

----------------------------------------------------------------------------
(* Characters *)

\* printable ASCII in code-unit order, U+0020 .. U+007E (the double quote, the
\* backslash and the backtick are written by name)
Ascii ==
  <<
     " ", "!", "dquote", "#", "$", "%", "&", "'", "(", ")", "*", "+", ",", "-", ".", "/",
     "0", "1", "2", "3", "4", "5", "6", "7", "8", "9", ":", ";", "<", "=", ">", "?",
     "@", "A", "B", "C", "D", "E", "F", "G", "H", "I", "J", "K", "L", "M", "N", "O",
     "P", "Q", "R", "S", "T", "U", "V", "W", "X", "Y", "Z", "[", "bslash", "]", "^", "_",
     "btick", "a", "b", "c", "d", "e", "f", "g", "h", "i", "j", "k", "l", "m", "n", "o",
     "p", "q", "r", "s", "t", "u", "v", "w", "x", "y", "z", "{", "|", "}", "~"
  >>

\* the UTF-16 code unit of a character (String.prototype comparison order)
CodeOf == [c \in {Ascii[i] : i \in 1..Len(Ascii)} |->
             (CHOOSE i \in 1..Len(Ascii) : Ascii[i] = c) + (32 - 1)]

IsDigit(c) == CodeOf[c] >= CodeOf["0"] /\ CodeOf[c] <= CodeOf["9"]

\* String.prototype.toLowerCase, one character
LowerChar(c) ==
  IF CodeOf[c] >= CodeOf["A"] /\ CodeOf[c] <= CodeOf["Z"]
    THEN Ascii[CodeOf[c] + (CodeOf["a"] - CodeOf["A"]) - (CodeOf[" "] - 1)]
    ELSE c

toLowerCase(s) == [i \in 1..Len(s) |-> LowerChar(s[i])]

\* String.prototype.startsWith
startsWith(s, p) == Len(p) <= Len(s) /\ SubSeq(s, 1, Len(p)) = p

\* the relational comparison s < t of two strings: by code units, a proper
\* prefix being smaller
StrLess(s, t) ==
  \E k \in 1..(Len(t)) :
    /\ \A i \in 1..(k - 1) : i <= Len(s) /\ s[i] = t[i]
    /\ \/ Len(s) = k - 1
       \/ Len(s) >= k /\ CodeOf[s[k]] < CodeOf[t[k]]

----------------------------------------------------------------------------
(* pricing.js *)

\* a rate the table gives as null
NullRate == -1

\* USD per 1,000,000 tokens, in thousandths of a USD
PRICING ==
  <<
    [prefix |-> <<"c","l","a","u","d","e","-","o","p","u","s","-","4","-","6">>,
     provider |-> "anthropic", input |-> 5000, output |-> 25000, cache_write |-> 6250, cache_read |-> 500],
    [prefix |-> <<"c","l","a","u","d","e","-","s","o","n","n","e","t","-","4","-","6">>,
     provider |-> "anthropic", input |-> 3000, output |-> 15000, cache_write |-> 3750, cache_read |-> 300],
    [prefix |-> <<"c","l","a","u","d","e","-","h","a","i","k","u","-","4","-","6">>,
     provider |-> "anthropic", input |-> 1000, output |-> 5000, cache_write |-> 1250, cache_read |-> 100],
    [prefix |-> <<"c","l","a","u","d","e","-","o","p","u","s","-","4","-","5">>,
     provider |-> "anthropic", input |-> 5000, output |-> 25000, cache_write |-> 6250, cache_read |-> 500],
    [prefix |-> <<"c","l","a","u","d","e","-","s","o","n","n","e","t","-","4","-","5">>,
     provider |-> "anthropic", input |-> 3000, output |-> 15000, cache_write |-> 3750, cache_read |-> 300],
    [prefix |-> <<"c","l","a","u","d","e","-","h","a","i","k","u","-","4","-","5">>,
     provider |-> "anthropic", input |-> 1000, output |-> 5000, cache_write |-> 1250, cache_read |-> 100],
    [prefix |-> <<"c","l","a","u","d","e","-","o","p","u","s","-","4","-","1">>,
     provider |-> "anthropic", input |-> 15000, output |-> 75000, cache_write |-> 18750, cache_read |-> 1500],
    [prefix |-> <<"c","l","a","u","d","e","-","o","p","u","s","-","4">>,
     provider |-> "anthropic", input |-> 15000, output |-> 75000, cache_write |-> 18750, cache_read |-> 1500],
    [prefix |-> <<"c","l","a","u","d","e","-","o","p","u","s","-","3">>,
     provider |-> "anthropic", input |-> 15000, output |-> 75000, cache_write |-> 18750, cache_read |-> 1500],
    [prefix |-> <<"c","l","a","u","d","e","-","s","o","n","n","e","t","-","3","-","7">>,
     provider |-> "anthropic", input |-> 3000, output |-> 15000, cache_write |-> 3750, cache_read |-> 300],
    [prefix |-> <<"c","l","a","u","d","e","-","s","o","n","n","e","t","-","3","-","5">>,
     provider |-> "anthropic", input |-> 3000, output |-> 15000, cache_write |-> 3750, cache_read |-> 300],
    [prefix |-> <<"c","l","a","u","d","e","-","s","o","n","n","e","t","-","3">>,
     provider |-> "anthropic", input |-> 3000, output |-> 15000, cache_write |-> 3750, cache_read |-> 300],
    [prefix |-> <<"c","l","a","u","d","e","-","h","a","i","k","u","-","3","-","5">>,
     provider |-> "anthropic", input |-> 800, output |-> 4000, cache_write |-> 1000, cache_read |-> 80],
    [prefix |-> <<"c","l","a","u","d","e","-","h","a","i","k","u","-","3">>,
     provider |-> "anthropic", input |-> 250, output |-> 1250, cache_write |-> 300, cache_read |-> 30],
    [prefix |-> <<"g","p","t","-","4","o","-","m","i","n","i">>,
     provider |-> "openai", input |-> 150, output |-> 600, cache_write |-> NullRate, cache_read |-> 75],
    [prefix |-> <<"g","p","t","-","4","o">>,
     provider |-> "openai", input |-> 2500, output |-> 10000, cache_write |-> NullRate, cache_read |-> 1250],
    [prefix |-> <<"g","p","t","-","4","-","t","u","r","b","o">>,
     provider |-> "openai", input |-> 10000, output |-> 30000, cache_write |-> NullRate, cache_read |-> NullRate],
    [prefix |-> <<"g","p","t","-","4">>,
     provider |-> "openai", input |-> 30000, output |-> 60000, cache_write |-> NullRate, cache_read |-> NullRate],
    [prefix |-> <<"g","p","t","-","3",".","5","-","t","u","r","b","o">>,
     provider |-> "openai", input |-> 500, output |-> 1500, cache_write |-> NullRate, cache_read |-> NullRate],
    [prefix |-> <<"o","4","-","m","i","n","i">>,
     provider |-> "openai", input |-> 1100, output |-> 4400, cache_write |-> NullRate, cache_read |-> 275],
    [prefix |-> <<"o","3","-","m","i","n","i">>,
     provider |-> "openai", input |-> 1100, output |-> 4400, cache_write |-> NullRate, cache_read |-> 550],
    [prefix |-> <<"o","3">>,
     provider |-> "openai", input |-> 10000, output |-> 40000, cache_write |-> NullRate, cache_read |-> 2500],
    [prefix |-> <<"o","1","-","m","i","n","i">>,
     provider |-> "openai", input |-> 3000, output |-> 12000, cache_write |-> NullRate, cache_read |-> 1500],
    [prefix |-> <<"o","1">>,
     provider |-> "openai", input |-> 15000, output |-> 60000, cache_write |-> NullRate, cache_read |-> 7500]
  >>

\* x || 0 on a rate
RateOrZero(r) == IF r = NullRate THEN 0 ELSE r

\* s.replace(/-\d{8}$/, '')
StripCompactDate(s) ==
  IF /\ Len(s) >= 9
     /\ s[Len(s) - 8] = "-"
     /\ \A i \in (Len(s) - 7)..Len(s) : IsDigit(s[i])
    THEN SubSeq(s, 1, Len(s) - 9)
    ELSE s

\* s.replace(/-\d{4}-\d{2}-\d{2}$/, '')
StripDashedDate(s) ==
  IF /\ Len(s) >= 11
     /\ s[Len(s) - 10] = "-"
     /\ \A i \in (Len(s) - 9)..(Len(s) - 6) : IsDigit(s[i])
     /\ s[Len(s) - 5] = "-"
     /\ \A i \in (Len(s) - 4)..(Len(s) - 3) : IsDigit(s[i])
     /\ s[Len(s) - 2] = "-"
     /\ \A i \in (Len(s) - 1)..Len(s) : IsDigit(s[i])
    THEN SubSeq(s, 1, Len(s) - 11)
    ELSE s

\* the model name as lookupModel matches it
normalise(model) == StripDashedDate(StripCompactDate(toLowerCase(model)))

NoEntry == [prefix |-> <<>>, provider |-> "none", input |-> 0, output |-> 0,
            cache_write |-> NullRate, cache_read |-> NullRate]

\* faulty variant: the last entry whose prefix matches
FindEntryLast(normalised) ==
  LET hits == {i \in 1..Len(PRICING) : startsWith(normalised, PRICING[i].prefix)}
  IN  IF hits = {} THEN NoEntry
      ELSE PRICING[CHOOSE i \in hits : \A j \in hits : j <= i]

\* PRICING.find(p => normalised.startsWith(p.prefix)) || null
FindEntry(normalised) ==
  LET hits == {i \in 1..Len(PRICING) : startsWith(normalised, PRICING[i].prefix)}
  IN  IF hits = {} THEN NoEntry
      ELSE PRICING[CHOOSE i \in hits : \A j \in hits : i <= j]

\* a falsy model (absent, null or "") is the empty sequence
lookupModel(model) ==
  IF model = <<>> THEN NoEntry ELSE FindEntry(normalise(model))

\* M = 1,000,000 is NanoPerMicro * NanoPerMicro: a cost is kept in two limbs
NanoPerMicro == 1000

\* tokens / 1,000,000 * rate, exactly
TokenCost(tokens, rate) ==
  LET whole == (tokens \div NanoPerMicro) * rate
      part  == (tokens % NanoPerMicro) * rate
  IN  [micro |-> whole + (part \div NanoPerMicro), nano |-> part % NanoPerMicro]

CostZero == [micro |-> 0, nano |-> 0]

CostAdd(a, b) ==
  [micro |-> a.micro + b.micro + ((a.nano + b.nano) \div NanoPerMicro),
   nano  |-> (a.nano + b.nano) % NanoPerMicro]

CostLess(a, b) ==
  a.micro < b.micro \/ (a.micro = b.micro /\ a.nano < b.nano)

\* faulty variant: the output tokens are billed at the input rate
CostWithInputRate(entry, inputTokens, outputTokens, cacheCreationTokens, cacheReadTokens) ==
  IF entry = NoEntry THEN CostZero
  ELSE CostAdd(CostAdd(CostAdd(TokenCost(inputTokens, entry.input),
                               TokenCost(outputTokens, entry.input)),
                       TokenCost(cacheCreationTokens, RateOrZero(entry.cache_write))),
               TokenCost(cacheReadTokens, RateOrZero(entry.cache_read)))

\* the body of computeCostUSD once the entry is looked up
CostWith(entry, inputTokens, outputTokens, cacheCreationTokens, cacheReadTokens) ==
  IF entry = NoEntry THEN CostZero
  ELSE LET c1 == CostAdd(CostZero, TokenCost(inputTokens, entry.input))
           c2 == CostAdd(c1, TokenCost(outputTokens, entry.output))
           c3 == CostAdd(c2, TokenCost(cacheCreationTokens, RateOrZero(entry.cache_write)))
           c4 == CostAdd(c3, TokenCost(cacheReadTokens, RateOrZero(entry.cache_read)))
       IN  c4

computeCostUSD(model, inputTokens, outputTokens, cacheCreationTokens, cacheReadTokens) ==
  CostWith(lookupModel(model), inputTokens, outputTokens, cacheCreationTokens, cacheReadTokens)

inferProvider(model) ==
  IF model = <<>> THEN "unknown"
  ELSE LET entry == lookupModel(model)
       IN  IF entry # NoEntry THEN entry.provider
           ELSE IF \/ startsWith(model, <<"g","p","t","-">>)
                   \/ startsWith(model, <<"o","1">>)
                   \/ startsWith(model, <<"o","3">>)
                   \/ startsWith(model, <<"o","4">>)
                  THEN "openai"
           ELSE IF startsWith(model, <<"c","l","a","u","d","e">>) THEN "anthropic"
           ELSE "unknown"

----------------------------------------------------------------------------
(* Array.prototype.sort, as the runtime (V8) runs it on an array shorter    *)
(* than 64 elements: the leading run is counted (and reversed when strictly *)
(* descending), the rest is inserted by binary insertion.  cmp names the     *)
(* comparator; only the sign of its number against 0 is ever read.          *)

\* faulty variant: (a, b) => (a.occurred_at <= b.occurred_at ? -1 : 1)
ByOccurredAtOrEqual(a, b) == IF ~StrLess(b.occurred_at, a.occurred_at) THEN -1 ELSE 1

\* (a, b) => (a.occurred_at < b.occurred_at ? -1 : 1)
ByOccurredAt(a, b) == IF StrLess(a.occurred_at, b.occurred_at) THEN -1 ELSE 1

\* the sign of b.cost_usd - a.cost_usd
ByCostDesc(a, b) ==
  IF CostLess(a.cost_usd, b.cost_usd) THEN 1
  ELSE IF CostLess(b.cost_usd, a.cost_usd) THEN -1
  ELSE 0

\* the sign of b.occurred_at.localeCompare(a.occurred_at), taken by code units
ByNewest(a, b) ==
  IF StrLess(a.occurred_at, b.occurred_at) THEN 1
  ELSE IF StrLess(b.occurred_at, a.occurred_at) THEN -1
  ELSE 0

\* the sign of a.date.localeCompare(b.date), taken by code units
ByDate(a, b) ==
  IF StrLess(a.date, b.date) THEN -1
  ELSE IF StrLess(b.date, a.date) THEN 1
  ELSE 0

\* the comparator named cmp, applied to a and b
Comparator(cmp, a, b) ==
  CASE cmp = "ByOccurredAt" -> ByOccurredAt(a, b)
    [] cmp = "ByCostDesc"   -> ByCostDesc(a, b)
    [] cmp = "ByNewest"     -> ByNewest(a, b)
    [] cmp = "ByDate"       -> ByDate(a, b)

ReverseSeq(s) == [i \in 1..Len(s) |-> s[Len(s) + 1 - i]]

RECURSIVE RunEnd(_, _, _, _)
\* the last index of the run that starts at 1, idx being the next to test
RunEnd(arr, cmp, isDescending, idx) ==
  IF idx > Len(arr) THEN idx - 1
  ELSE LET order == Comparator(cmp, arr[idx], arr[idx - 1])
       IN  IF (isDescending /\ order >= 0) \/ (~isDescending /\ order < 0)
             THEN idx - 1
             ELSE RunEnd(arr, cmp, isDescending, idx + 1)

RECURSIVE BinarySearch(_, _, _, _, _)
BinarySearch(arr, cmp, pivot, left, right) ==
  IF left >= right THEN left
  ELSE LET mid == left + ((right - left) \div 2)
       IN  IF Comparator(cmp, pivot, arr[mid]) < 0
             THEN BinarySearch(arr, cmp, pivot, left, mid)
             ELSE BinarySearch(arr, cmp, pivot, mid + 1, right)

RECURSIVE BinaryInsertionSort(_, _, _)
\* arr[1..start-1] is sorted; inserts arr[start..]
BinaryInsertionSort(arr, cmp, start) ==
  IF start > Len(arr) THEN arr
  ELSE LET pivot == arr[start]
           at    == BinarySearch(arr, cmp, pivot, 1, start)
           moved == [i \in 1..Len(arr) |->
                       IF i < at THEN arr[i]
                       ELSE IF i = at THEN pivot
                       ELSE IF i <= start THEN arr[i - 1]
                       ELSE arr[i]]
       IN  BinaryInsertionSort(moved, cmp, start + 1)

ArraySort(arr, cmp) ==
  IF Len(arr) < 2 THEN arr
  ELSE LET isDescending == Comparator(cmp, arr[2], arr[1]) < 0
           runLength    == RunEnd(arr, cmp, isDescending, 3)
           run          == IF isDescending
                             THEN ReverseSeq(SubSeq(arr, 1, runLength))
                                    \o SubSeq(arr, runLength + 1, Len(arr))
                             ELSE arr
       IN  BinaryInsertionSort(run, cmp, runLength + 1)

----------------------------------------------------------------------------
(* parser.js: one line of a log file *)

\* null for an optional string kept as an atom; a falsy string is "" too
Null == ""

\* String.prototype.trim (the space is the only white space of Ascii)
RECURSIVE TrimStart(_)
TrimStart(s) == IF s # <<>> /\ Head(s) = " " THEN TrimStart(Tail(s)) ELSE s

RECURSIVE TrimEnd(_)
TrimEnd(s) ==
  IF s # <<>> /\ s[Len(s)] = " " THEN TrimEnd(SubSeq(s, 1, Len(s) - 1)) ELSE s

trim(s) == TrimEnd(TrimStart(s))

\* s.slice(0, n)
SliceTo(s, n) == SubSeq(s, 1, IF Len(s) < n THEN Len(s) ELSE n)

PromptLimit == 400

RECURSIVE JoinSpace(_)
\* parts.join(' ')
JoinSpace(parts) ==
  IF parts = <<>> THEN <<>>
  ELSE IF Len(parts) = 1 THEN parts[1]
  ELSE parts[1] \o <<" ">> \o JoinSpace(Tail(parts))

RECURSIVE TextParts(_)
\* the trimmed text of the items of type 'text', in order
TextParts(items) ==
  IF items = <<>> THEN <<>>
  ELSE IF Head(items).type = "text"
    THEN <<trim(Head(items).text)>> \o TextParts(Tail(items))
    ELSE TextParts(Tail(items))

\* content is [kind, text, items]: absent, a string, or an array of items;
\* null is the empty sequence
extractHumanText(content) ==
  CASE content.kind = "string" -> SliceTo(trim(content.text), PromptLimit)
    [] content.kind = "array"  ->
         SliceTo(trim(JoinSpace(TextParts(content.items))), PromptLimit)
    [] OTHER -> <<>>

\* the <synthetic> placeholder
Synthetic == <<"<", "s", "y", "n", "t", "h", "e", "t", "i", "c", ">">>

\* x || 0 on a token count: an absent count is written 0 in a record
TokensOrZero(n) == IF n = 0 THEN 0 ELSE n

\* the state of a scan: the shared dedup set and output array, the file's
\* lastHumanText, and whether an exception is propagating
ScanStart == [seen |-> {}, events |-> <<>>, lastHumanText |-> <<>>, threw |-> FALSE]

UsageEvent(obj, projectPath, lastHumanText, now) ==
  [provider              |-> inferProvider(obj.model),
   model                 |-> obj.model,
   session_id            |-> obj.sessionId,
   project_path          |-> IF projectPath # Null THEN projectPath ELSE obj.cwd,
   request_id            |-> obj.id,
   occurred_at           |-> IF obj.timestamp # <<>> THEN obj.timestamp ELSE now,
   input_tokens          |-> TokensOrZero(obj.input_tokens),
   output_tokens         |-> TokensOrZero(obj.output_tokens),
   cache_creation_tokens |-> TokensOrZero(obj.cache_creation_input_tokens),
   cache_read_tokens     |-> TokensOrZero(obj.cache_read_input_tokens),
   cost_usd              |-> computeCostUSD(obj.model,
                               TokensOrZero(obj.input_tokens),
                               TokensOrZero(obj.output_tokens),
                               TokensOrZero(obj.cache_creation_input_tokens),
                               TokensOrZero(obj.cache_read_input_tokens)),
   source                |-> IF obj.isSidechain THEN "claude-code-subagent" ELSE "claude-code",
   prompt_text           |-> lastHumanText]

\* faulty variant: no request id is ever taken for a duplicate
IsDuplicateNever(seen, requestId) == FALSE

\* seen.has(requestId)
IsDuplicate(seen, requestId) == requestId \in seen

\* faulty variant: the request id is not recorded
MarkSeenForgets(seen, requestId) == seen

\* seen.add(requestId)
MarkSeen(seen, requestId) == seen \cup {requestId}

\* faulty variant: lastHumanText = text, an empty text included
NextHumanTextAlways(lastHumanText, text) == text

\* if (text) lastHumanText = text
NextHumanText(lastHumanText, text) == IF text # <<>> THEN text ELSE lastHumanText

\* one iteration of the loop over the lines of a file
ScanLine(st, obj, projectPath, now) ==
  IF st.threw THEN st
  ELSE IF obj.json \in {"blank", "malformed"} THEN st
  ELSE IF obj.json = "null" THEN [st EXCEPT !.threw = TRUE]
  ELSE IF obj.json # "object" THEN st
  ELSE IF obj.type = "user"
    THEN LET text == IF obj.message THEN extractHumanText(obj.content) ELSE <<>>
         IN  [st EXCEPT !.lastHumanText = NextHumanText(@, text)]
  ELSE IF obj.type # "assistant" THEN st
  ELSE IF ~obj.message \/ ~obj.usage THEN st
  ELSE IF obj.id = Null THEN st
  ELSE IF IsDuplicate(st.seen, obj.id) THEN st
  ELSE LET marked == [st EXCEPT !.seen = MarkSeen(@, obj.id)]
       IN  IF obj.model = <<>> \/ obj.model = Synthetic THEN marked
           ELSE [marked EXCEPT !.events =
                   Append(@, UsageEvent(obj, projectPath, st.lastHumanText, now))]

RECURSIVE ScanLines(_, _, _, _)
ScanLines(st, lines, projectPath, now) ==
  IF lines = <<>> THEN st
  ELSE ScanLines(ScanLine(st, Head(lines), projectPath, now), Tail(lines), projectPath, now)

\* file is a directory entry [name, isFile, readable]; d gives the lines of
\* the readable files by name
parseJSONL(st, file, d, projectPath, now) ==
  IF st.threw \/ ~file.readable THEN st
  ELSE [ScanLines([st EXCEPT !.lastHumanText = <<>>], d[file.name], projectPath, now)
          EXCEPT !.lastHumanText = <<>>]

----------------------------------------------------------------------------
(* parser.js: the directory scan *)

\* ~/.claude/projects as readdirSync lists it.  The lines of a.jsonl and
\* b.jsonl are the variable disk; everything else about the directory is fixed.
ProjectsDir ==
  << [readable |-> TRUE,
      index    |-> [kind |-> "ok",
                    entries |-> << [fullPath |-> "a.jsonl", projectPath |-> "/work/app"] >>],
      entries  |-> << [name |-> "a.jsonl",    isFile |-> TRUE,  jsonl |-> TRUE,  readable |-> TRUE],
                      [name |-> "agents",     isFile |-> FALSE, jsonl |-> FALSE, readable |-> TRUE],
                      [name |-> "notes.txt",  isFile |-> TRUE,  jsonl |-> FALSE, readable |-> TRUE] >>],
     [readable |-> TRUE,
      index    |-> [kind |-> "malformed", entries |-> << >>],
      entries  |-> << [name |-> "b.jsonl",      isFile |-> TRUE, jsonl |-> TRUE, readable |-> TRUE],
                      [name |-> "locked.jsonl", isFile |-> TRUE, jsonl |-> TRUE, readable |-> FALSE] >>],
     [readable |-> FALSE,
      index    |-> [kind |-> "absent", entries |-> << >>],
      entries  |-> << >>] >>

LogFiles == {"a.jsonl", "b.jsonl"}

\* projectPathMap.get(name) ?? projectPath
ProjectPathOf(index, name) ==
  LET ok      == index.kind = "ok"
      mapped  == {i \in 1..Len(index.entries) :
                    ok /\ index.entries[i].fullPath = name}
      fromMap == IF mapped = {} THEN Null
                 ELSE index.entries[CHOOSE i \in mapped : \A j \in mapped : j <= i].projectPath
      slugPath == IF ok /\ index.entries # << >> THEN index.entries[1].projectPath ELSE Null
  IN  IF fromMap # Null THEN fromMap ELSE slugPath

RECURSIVE ScanEntries(_, _, _, _, _)
ScanEntries(st, entries, index, d, now) ==
  IF entries = << >> THEN st
  ELSE LET ent  == Head(entries)
           next == IF ~ent.isFile \/ ~ent.jsonl THEN st
                   ELSE parseJSONL(st, ent, d, ProjectPathOf(index, ent.name), now)
       IN  ScanEntries(next, Tail(entries), index, d, now)

RECURSIVE ScanSlugs(_, _, _, _)
ScanSlugs(st, slugDirs, d, now) ==
  IF slugDirs = << >> THEN st
  ELSE LET slug == Head(slugDirs)
           next == IF ~slug.readable THEN st
                   ELSE ScanEntries(st, slug.entries, slug.index, d, now)
       IN  ScanSlugs(next, Tail(slugDirs), d, now)

\* the scan of loadAllEvents up to, not including, the final sort
ScanAll(d, now) == ScanSlugs(ScanStart, ProjectsDir, d, now)

\* [threw, events]: the exception that escapes, or the array returned
loadAllEvents(d, now) ==
  LET st == ScanAll(d, now)
  IN  IF st.threw THEN [threw |-> TRUE, events |-> << >>]
      ELSE [threw |-> FALSE, events |-> ArraySort(st.events, "ByOccurredAt")]

----------------------------------------------------------------------------
(* server.js: the date filter and the aggregations *)

StrGreater(s, t) == StrLess(t, s)

EndOfDay == <<"T", "2", "3", ":", "5", "9", ":", "5", "9">>

\* from and to are 'YYYY-MM-DD' strings; absent (or "") is the empty sequence
filterByDate(events, from, to) ==
  IF from = << >> /\ to = << >> THEN events
  ELSE LET hi == to \o EndOfDay
           Keep(e) == /\ ~(from # << >> /\ StrLess(e.occurred_at, from))
                      /\ ~(to # << >> /\ StrGreater(e.occurred_at, hi))
       IN  SelectSeq(events, Keep)

RECURSIVE Totals(_, _)
\* filtered.reduce(...)
Totals(acc, filtered) ==
  IF filtered = << >> THEN acc
  ELSE LET e == Head(filtered)
       IN  Totals([total_requests        |-> acc.total_requests + 1,
                   input_tokens          |-> acc.input_tokens + e.input_tokens,
                   output_tokens         |-> acc.output_tokens + e.output_tokens,
                   cache_creation_tokens |-> acc.cache_creation_tokens + e.cache_creation_tokens,
                   cache_read_tokens     |-> acc.cache_read_tokens + e.cache_read_tokens,
                   cost_usd              |-> CostAdd(acc.cost_usd, e.cost_usd)],
                  Tail(filtered))

TotalsZero ==
  [total_requests |-> 0, input_tokens |-> 0, output_tokens |-> 0,
   cache_creation_tokens |-> 0, cache_read_tokens |-> 0, cost_usd |-> CostZero]

\* faulty variant: the row keeps the cost of its latest event only
ModelRowAddLastCost(m, e) ==
  [m EXCEPT !.requests              = @ + 1,
            !.input_tokens          = @ + e.input_tokens,
            !.output_tokens         = @ + e.output_tokens,
            !.cache_creation_tokens = @ + e.cache_creation_tokens,
            !.cache_read_tokens     = @ + e.cache_read_tokens,
            !.cost_usd              = e.cost_usd]

\* m, after one event of its model is added to it
ModelRowAdd(m, e) ==
  [m EXCEPT !.requests              = @ + 1,
            !.input_tokens          = @ + e.input_tokens,
            !.output_tokens         = @ + e.output_tokens,
            !.cache_creation_tokens = @ + e.cache_creation_tokens,
            !.cache_read_tokens     = @ + e.cache_read_tokens,
            !.cost_usd              = CostAdd(@, e.cost_usd)]

ModelRowNew(e) ==
  [model |-> e.model, provider |-> e.provider, requests |-> 0,
   input_tokens |-> 0, output_tokens |-> 0,
   cache_creation_tokens |-> 0, cache_read_tokens |-> 0, cost_usd |-> CostZero]

RECURSIVE ModelMap(_, _)
\* the values of modelMap, in insertion order
ModelMap(rows, filtered) ==
  IF filtered = << >> THEN rows
  ELSE LET e    == Head(filtered)
           have == {i \in 1..Len(rows) : rows[i].model = e.model}
           with == IF have = {} THEN Append(rows, ModelRowNew(e)) ELSE rows
           at   == CHOOSE i \in 1..Len(with) : with[i].model = e.model
       IN  ModelMap([with EXCEPT ![at] = ModelRowAdd(@, e)], Tail(filtered))

computeOverview(events, from, to) ==
  LET filtered == filterByDate(events, from, to)
  IN  [totals  |-> Totals(TotalsZero, filtered),
       byModel |-> ArraySort(ModelMap(<< >>, filtered), "ByCostDesc")]

\* Array.prototype.slice(start, end)
Slice(arr, start, end) ==
  LET len  == Len(arr)
      Rel(k) == IF k < 0 THEN (IF len + k < 0 THEN 0 ELSE len + k)
                ELSE (IF k > len THEN len ELSE k)
      lo   == Rel(start)
      hi   == Rel(end)
  IN  IF hi <= lo THEN << >> ELSE SubSeq(arr, lo + 1, hi)

\* faulty variant: Math.floor(total / limit)
FloorDiv(total, limit) ==
  IF limit = 0
    THEN [kind |-> IF total = 0 THEN "NaN" ELSE "Infinity", n |-> 0]
  ELSE IF limit > 0
    THEN [kind |-> "number", n |-> total \div limit]
  ELSE [kind |-> "number", n |-> 0 - ((total + (0 - limit) - 1) \div (0 - limit))]

\* Math.ceil(total / limit), for total >= 0
CeilDiv(total, limit) ==
  IF limit = 0
    THEN [kind |-> IF total = 0 THEN "NaN" ELSE "Infinity", n |-> 0]
  ELSE IF limit > 0
    THEN [kind |-> "number", n |-> (total + limit - 1) \div limit]
  ELSE [kind |-> "number", n |-> 0 - (total \div (0 - limit))]

\* faulty variant: f.sort(cmp), which sorts f itself
LeftBySortInPlace(arr, cmp) == ArraySort(arr, cmp)

\* the array arr after [...arr].sort(cmp): the copy is sorted, arr is not
LeftBySpreadSort(arr, cmp) == arr

\* the filters of computeEvents
FilterEvents(events, opts) ==
  LET KeepFrom(e)     == ~StrLess(e.occurred_at, opts.from)
      KeepTo(e)       == ~StrGreater(e.occurred_at, opts.to \o EndOfDay)
      KeepModel(e)    == e.model = opts.model
      KeepProvider(e) == e.provider = opts.provider
      KeepSession(e)  == e.session_id = opts.session_id
      f1 == IF opts.from # << >> THEN SelectSeq(events, KeepFrom) ELSE events
      f2 == IF opts.to # << >> THEN SelectSeq(f1, KeepTo) ELSE f1
      f3 == IF opts.model # << >> THEN SelectSeq(f2, KeepModel) ELSE f2
      f4 == IF opts.provider # Null THEN SelectSeq(f3, KeepProvider) ELSE f3
  IN  IF opts.session_id # Null THEN SelectSeq(f4, KeepSession) ELSE f4

\* no filter runs, so f is still the array events itself
IsUnfiltered(opts) ==
  /\ opts.from = << >> /\ opts.to = << >> /\ opts.model = << >>
  /\ opts.provider = Null /\ opts.session_id = Null

\* the comparator computeEvents sorts with
SortOf(opts) == IF opts.sort = "cost" THEN "ByCostDesc" ELSE "ByNewest"

\* opts is [page, limit, model, provider, from, to, session_id, sort]
computeEvents(events, opts) ==
  LET f      == ArraySort(FilterEvents(events, opts), SortOf(opts))
      total  == Len(f)
      offset == (opts.page - 1) * opts.limit
  IN  [rows  |-> Slice(f, offset, offset + opts.limit),
       total |-> total, page |-> opts.page, limit |-> opts.limit,
       pages |-> CeilDiv(total, opts.limit)]

\* the array events as computeEvents(events, opts) leaves it
EventsLeftByComputeEvents(events, opts) ==
  IF IsUnfiltered(opts) THEN LeftBySpreadSort(events, SortOf(opts)) ELSE events

\* the index of the entry of a Map (kept in insertion order) with this key, or 0
MapIndex(entries, key) ==
  IF \E i \in 1..Len(entries) : entries[i].key = key
    THEN CHOOSE i \in 1..Len(entries) : entries[i].key = key
    ELSE 0

\* [...map.values()]
MapValues(entries) == [i \in 1..Len(entries) |-> entries[i].value]

\* e.occurred_at.slice(0, 10)
DateOf(e) == SliceTo(e.occurred_at, 10)

RECURSIVE TimeseriesMap(_, _)
\* map of computeTimeseries, keyed by date and model
TimeseriesMap(entries, filtered) ==
  IF filtered = << >> THEN entries
  ELSE LET e    == Head(filtered)
           key  == <<DateOf(e), e.model>>
           with == IF MapIndex(entries, key) = 0
                     THEN Append(entries,
                            [key |-> key,
                             value |-> [date |-> DateOf(e), model |-> e.model,
                                        provider |-> e.provider,
                                        cost_usd |-> CostZero, requests |-> 0]])
                     ELSE entries
           at   == MapIndex(with, key)
       IN  TimeseriesMap([with EXCEPT ![at].value.cost_usd = CostAdd(@, e.cost_usd),
                                      ![at].value.requests = @ + 1],
                         Tail(filtered))

computeTimeseries(events, from, to) ==
  ArraySort(MapValues(TimeseriesMap(<< >>, filterByDate(events, from, to))), "ByDate")

\* e.session_id || 'unknown'
SessionKey(e) == IF e.session_id # Null THEN e.session_id ELSE "unknown"

SessionRowNew(e) ==
  [session_id |-> e.session_id, project_path |-> e.project_path, requests |-> 0,
   input_tokens |-> 0, output_tokens |-> 0,
   cache_creation_tokens |-> 0, cache_read_tokens |-> 0, cost_usd |-> CostZero,
   started_at |-> e.occurred_at, ended_at |-> e.occurred_at, models |-> << >>]

\* faulty variant: the session keeps the cost of its latest event only
SessionRowAddLastCost(s, e) ==
  [s EXCEPT !.requests              = @ + 1,
            !.input_tokens          = @ + e.input_tokens,
            !.output_tokens         = @ + e.output_tokens,
            !.cache_creation_tokens = @ + e.cache_creation_tokens,
            !.cache_read_tokens     = @ + e.cache_read_tokens,
            !.cost_usd              = e.cost_usd,
            !.started_at            = IF StrLess(e.occurred_at, @) THEN e.occurred_at ELSE @,
            !.ended_at              = IF StrGreater(e.occurred_at, @) THEN e.occurred_at ELSE @,
            !.models                = IF \E i \in 1..Len(@) : @[i] = e.model
                                        THEN @ ELSE Append(@, e.model)]

\* s, after one event of its session is added to it; models is the Set, in
\* insertion order
SessionRowAdd(s, e) ==
  [s EXCEPT !.requests              = @ + 1,
            !.input_tokens          = @ + e.input_tokens,
            !.output_tokens         = @ + e.output_tokens,
            !.cache_creation_tokens = @ + e.cache_creation_tokens,
            !.cache_read_tokens     = @ + e.cache_read_tokens,
            !.cost_usd              = CostAdd(@, e.cost_usd),
            !.started_at            = IF StrLess(e.occurred_at, @) THEN e.occurred_at ELSE @,
            !.ended_at              = IF StrGreater(e.occurred_at, @) THEN e.occurred_at ELSE @,
            !.models                = IF \E i \in 1..Len(@) : @[i] = e.model
                                        THEN @ ELSE Append(@, e.model)]

RECURSIVE SessionMap(_, _)
\* map of computeTopSessions, keyed by session
SessionMap(entries, filtered) ==
  IF filtered = << >> THEN entries
  ELSE LET e    == Head(filtered)
           key  == SessionKey(e)
           with == IF MapIndex(entries, key) = 0
                     THEN Append(entries, [key |-> key, value |-> SessionRowNew(e)])
                     ELSE entries
           at   == MapIndex(with, key)
       IN  SessionMap([with EXCEPT ![at].value = SessionRowAdd(@, e)], Tail(filtered))

RECURSIVE JoinComma(_)
\* [...s.models].join(',')
JoinComma(parts) ==
  IF parts = << >> THEN << >>
  ELSE IF Len(parts) = 1 THEN parts[1]
  ELSE parts[1] \o <<",">> \o JoinComma(Tail(parts))

computeTopSessions(events, from, to, limit) ==
  LET filtered == filterByDate(events, from, to)
      sorted   == ArraySort(MapValues(SessionMap(<< >>, filtered)), "ByCostDesc")
      top      == Slice(sorted, 0, limit)
  IN  [i \in 1..Len(top) |-> [top[i] EXCEPT !.models = JoinComma(@)]]

\* e.project_path || 'Unknown'
ProjectKey(e) == IF e.project_path # Null THEN e.project_path ELSE "Unknown"

RECURSIVE ProjectMap(_, _)
\* map of computeProjects, keyed by project; sessions is the Set
ProjectMap(entries, filtered) ==
  IF filtered = << >> THEN entries
  ELSE LET e    == Head(filtered)
           key  == ProjectKey(e)
           with == IF MapIndex(entries, key) = 0
                     THEN Append(entries,
                            [key |-> key,
                             value |-> [project_path |-> key, requests |-> 0,
                                        cost_usd |-> CostZero,
                                        input_tokens |-> 0, output_tokens |-> 0,
                                        cache_read_tokens |-> 0,
                                        cache_creation_tokens |-> 0, sessions |-> {}]])
                     ELSE entries
           at   == MapIndex(with, key)
       IN  ProjectMap(
             [with EXCEPT ![at].value =
                [@ EXCEPT !.requests              = @ + 1,
                          !.cost_usd              = CostAdd(@, e.cost_usd),
                          !.input_tokens          = @ + e.input_tokens,
                          !.output_tokens         = @ + e.output_tokens,
                          !.cache_read_tokens     = @ + e.cache_read_tokens,
                          !.cache_creation_tokens = @ + e.cache_creation_tokens,
                          !.sessions              = IF e.session_id # Null
                                                      THEN @ \cup {e.session_id} ELSE @]],
             Tail(filtered))

computeProjects(events, from, to) ==
  LET sorted == ArraySort(MapValues(ProjectMap(<< >>, filterByDate(events, from, to))),
                          "ByCostDesc")
  IN  [i \in 1..Len(sorted) |-> [sorted[i] EXCEPT !.sessions = Cardinality(@)]]

----------------------------------------------------------------------------
(* The log records written to the files *)

MaxLines == 3

Opus46Dated  == <<"c", "l", "a", "u", "d", "e", "-", "o", "p", "u", "s", "-", "4", "-", "6", "-", "2", "0", "2", "5", "0", "6", "0", "1">>
Opus46       == <<"c", "l", "a", "u", "d", "e", "-", "o", "p", "u", "s", "-", "4", "-", "6">>
Gpt4oMini    == <<"g", "p", "t", "-", "4", "o", "-", "m", "i", "n", "i">>
Gpt4o        == <<"g", "p", "t", "-", "4", "o">>
UnknownModel == <<"u", "n", "k", "n", "o", "w", "n", "-", "m", "o", "d", "e", "l", "-", "x">>

Day1     == <<"2", "0", "2", "4", "-", "0", "1", "-", "0", "1">>
Day2     == <<"2", "0", "2", "4", "-", "0", "1", "-", "0", "2">>
Day3     == <<"2", "0", "2", "4", "-", "0", "1", "-", "0", "3">>
Day1Noon == <<"2", "0", "2", "4", "-", "0", "1", "-", "0", "1", "T", "1", "2", ":", "0", "0", ":", "0", "0", ".", "0", "0", "0", "Z">>
Day2Zero == <<"2", "0", "2", "4", "-", "0", "1", "-", "0", "2", "T", "0", "0", ":", "0", "0", ":", "0", "0", ".", "0", "0", "0", "Z">>
Day2Noon == <<"2", "0", "2", "4", "-", "0", "1", "-", "0", "2", "T", "1", "2", ":", "0", "0", ":", "0", "0", ".", "0", "0", "0", "Z">>
Day2Last == <<"2", "0", "2", "4", "-", "0", "1", "-", "0", "2", "T", "2", "3", ":", "5", "9", ":", "5", "9", ".", "0", "0", "0", "Z">>
Day2LastMs == <<"2", "0", "2", "4", "-", "0", "1", "-", "0", "2", "T", "2", "3", ":", "5", "9", ":", "5", "9", ".", "9", "9", "9", "Z">>
Day3Zero == <<"2", "0", "2", "4", "-", "0", "1", "-", "0", "3", "T", "0", "0", ":", "0", "0", ":", "0", "0", ".", "0", "0", "0", "Z">>

\* what new Date().toISOString() can return, in the order of time
ClockTimes == << Day2Noon, Day3Zero >>

NoContent == [kind |-> "absent", text |-> << >>, items |-> << >>]

\* a line that is not a JSON object: blank, malformed, null or a scalar
OtherLine(json) ==
  [json |-> json, type |-> "other", message |-> FALSE, content |-> NoContent,
   id |-> Null, model |-> << >>, usage |-> FALSE,
   input_tokens |-> 0, output_tokens |-> 0,
   cache_creation_input_tokens |-> 0, cache_read_input_tokens |-> 0,
   sessionId |-> Null, cwd |-> Null, timestamp |-> << >>, isSidechain |-> FALSE]

UserLine(content) ==
  [OtherLine("object") EXCEPT !.type = "user", !.message = TRUE, !.content = content,
                              !.sessionId = "s1", !.cwd = "/home/u/app",
                              !.timestamp = Day1Noon]

\* tokens is <<input, output, cache creation, cache read>>
AssistantLine(id, model, usage, tokens, sessionId, timestamp) ==
  [OtherLine("object") EXCEPT !.type = "assistant", !.message = TRUE,
                              !.id = id, !.model = model, !.usage = usage,
                              !.input_tokens = tokens[1], !.output_tokens = tokens[2],
                              !.cache_creation_input_tokens = tokens[3],
                              !.cache_read_input_tokens = tokens[4],
                              !.sessionId = sessionId, !.cwd = "/home/u/app",
                              !.timestamp = timestamp]

Million == 1000000

\* the lines the load is checked on: duplicates of a request id with and
\* without a real model, equal and absent timestamps, a negative count,
\* and lines that are no record
LoadLines ==
  { AssistantLine("r1", Opus46Dated, TRUE, <<Million, Million, 0, 0>>, "s1", Day2Noon),
    AssistantLine("r1", Synthetic, TRUE, <<0, 0, 0, 0>>, "s1", Day1Noon),
    AssistantLine("r2", Gpt4oMini, TRUE, <<1500, 10, 300, 1000>>, "s2", Day1Noon),
    AssistantLine("r2", Opus46, TRUE, <<0 - 1000, 20, 0, 0>>, Null, Day2Noon),
    AssistantLine("r3", UnknownModel, TRUE, <<7, 7, 7, 7>>, "s2", << >>),
    AssistantLine("r3", Opus46, FALSE, <<0, 0, 0, 0>>, "s2", Day1Noon),
    UserLine([kind |-> "string", text |-> <<" ", "h", "i", " ">>, items |-> << >>]),
    OtherLine("malformed"),
    OtherLine("null") }

----------------------------------------------------------------------------
(* The state machine *)

NoCall == [op |-> "none"]
NoResp == [op |-> "none"]

Init ==
  /\ disk = [f \in LogFiles |-> << >>]
  /\ clock = 1
  /\ cachedEvents = [loaded |-> FALSE, events |-> << >>]
  /\ loadedFrom = [disk |-> [f \in LogFiles |-> << >>], now |-> ClockTimes[1], threw |-> FALSE]
  /\ resp = NoResp
  /\ call = NoCall

TotalLines(d) == Len(d["a.jsonl"]) + Len(d["b.jsonl"])

\* the tool appends a record to a log file; the files are written before the
\* dashboard is started
WriteLog(f, line) ==
  /\ ~cachedEvents.loaded
  /\ TotalLines(disk) < MaxLines
  /\ disk' = [disk EXCEPT ![f] = Append(@, line)]
  /\ UNCHANGED <<clock, cachedEvents, loadedFrom, resp, call>>

\* time passes while the server runs
Tick ==
  /\ cachedEvents.loaded
  /\ clock < Len(ClockTimes)
  /\ clock' = clock + 1
  /\ UNCHANGED <<disk, cachedEvents, loadedFrom, resp, call>>

\* createApp: load on startup; an exception leaves an empty cache
createApp ==
  /\ ~cachedEvents.loaded
  /\ LET r == loadAllEvents(disk, ClockTimes[clock])
     IN  /\ cachedEvents' = [loaded |-> TRUE, events |-> r.events]
         /\ loadedFrom' = [disk |-> disk, now |-> ClockTimes[clock], threw |-> r.threw]
  /\ UNCHANGED <<disk, clock, resp, call>>

\* faulty variant: the loaded events are pushed onto the array in the cache
AssignedInPlace(held, loaded) == held \o loaded

\* cachedEvents = loadAllEvents(...): the array the cache holds afterwards
Assigned(held, loaded) == loaded

\* POST /api/refresh: an exception answers 500 and leaves the cache as it was
Refresh ==
  /\ cachedEvents.loaded
  /\ resp = NoResp
  /\ LET r == loadAllEvents(disk, ClockTimes[clock])
     IN  IF r.threw
           THEN /\ resp' = [op |-> "refresh", status |-> 500]
                /\ UNCHANGED <<cachedEvents, loadedFrom>>
           ELSE /\ cachedEvents' = [loaded |-> TRUE,
                                    events |-> Assigned(cachedEvents.events, r.events)]
                /\ loadedFrom' = [disk |-> disk, now |-> ClockTimes[clock], threw |-> FALSE]
                /\ resp' = [op |-> "refresh", status |-> 200]
  /\ UNCHANGED <<disk, clock, call>>

\* getEvents(): the cache, loaded on first use.  The handlers exist only once
\* createApp has set the cache, so the load is never taken here.
getEvents == cachedEvents.events

\* GET /api/overview
Overview(from, to) ==
  /\ cachedEvents.loaded
  /\ resp = NoResp
  /\ resp' = [op |-> "overview", from |-> from, to |-> to, status |-> 200,
              body |-> computeOverview(getEvents, from, to)]
  /\ UNCHANGED <<disk, clock, cachedEvents, loadedFrom, call>>

DefaultPage  == 1
DefaultLimit == 50

\* GET /api/events; page and limit are the numbers parseInt gives, or the defaults
Events(opts) ==
  /\ cachedEvents.loaded
  /\ resp = NoResp
  /\ resp' = [op |-> "events", opts |-> opts, status |-> 200,
              body |-> computeEvents(getEvents, opts)]
  /\ cachedEvents' = [cachedEvents EXCEPT
                        !.events = EventsLeftByComputeEvents(getEvents, opts)]
  /\ UNCHANGED <<disk, clock, loadedFrom, call>>

\* GET /api/timeseries
Timeseries(from, to) ==
  /\ cachedEvents.loaded
  /\ resp = NoResp
  /\ resp' = [op |-> "timeseries", from |-> from, to |-> to, status |-> 200,
              body |-> computeTimeseries(getEvents, from, to)]
  /\ UNCHANGED <<disk, clock, cachedEvents, loadedFrom, call>>

DefaultSessionsLimit == 20

\* GET /api/sessions; limit is the number parseInt gives, or the default
Sessions(from, to, limit) ==
  /\ cachedEvents.loaded
  /\ resp = NoResp
  /\ resp' = [op |-> "sessions", from |-> from, to |-> to, limit |-> limit,
              status |-> 200,
              body |-> computeTopSessions(getEvents, from, to, limit)]
  /\ UNCHANGED <<disk, clock, cachedEvents, loadedFrom, call>>

\* GET /api/projects
Projects(from, to) ==
  /\ cachedEvents.loaded
  /\ resp = NoResp
  /\ resp' = [op |-> "projects", from |-> from, to |-> to, status |-> 200,
              body |-> computeProjects(getEvents, from, to)]
  /\ UNCHANGED <<disk, clock, cachedEvents, loadedFrom, call>>

\* the tool appends a record to a log file while the dashboard runs
AppendLog(f, line) ==
  /\ cachedEvents.loaded
  /\ TotalLines(disk) < MaxLines
  /\ disk' = [disk EXCEPT ![f] = Append(@, line)]
  /\ UNCHANGED <<clock, cachedEvents, loadedFrom, resp, call>>

\* the response is sent; the server takes the next request
Send ==
  /\ resp # NoResp
  /\ resp' = NoResp
  /\ UNCHANGED <<disk, clock, cachedEvents, loadedFrom, call>>

----------------------------------------------------------------------------
(* Calls of the exported functions of pricing.js *)

MaxSuffixes == 2

MixedCaseOpus == <<"C", "l", "a", "u", "d", "e", "-", "O", "p", "u", "s", "-", "4", "-", "6">>

ModelBases ==
  { Opus46, MixedCaseOpus, <<"c", "l", "a", "u", "d", "e", "-", "o", "p", "u", "s", "-", "4">>, Gpt4oMini, Gpt4o,
    <<"o", "3">>, UnknownModel, << >> }

ModelSuffixes ==
  { <<"-", "2", "0", "2", "5", "0", "6", "0", "1">>, <<"-", "2", "0", "2", "5", "-", "0", "6", "-", "0", "1">>,
    <<"-", "2", "0", "2", "5", "0", "6", "0">>, <<"-", "l", "a", "t", "e", "s", "t">> }

RECURSIVE ModelNames(_)
\* a base followed by at most n suffixes
ModelNames(n) ==
  IF n = 0 THEN ModelBases
  ELSE LET shorter == ModelNames(n - 1)
       IN  shorter \cup {m \o x : m \in shorter, x \in ModelSuffixes}

ModelInputs == ModelNames(MaxSuffixes)

TokenCounts == {0, 1, Million}

\* every vector over TokenCounts, and the vectors of the records of LoadLines
TokenInputs ==
  (TokenCounts \X TokenCounts \X TokenCounts \X TokenCounts)
    \cup {<<0 - 1000, 20, 0, 0>>, <<1500, 10, 300, 1000>>, <<7, 7, 7, 7>>}

CallLookupModel(model) ==
  /\ call = NoCall
  /\ call' = [op |-> "lookupModel", model |-> model,
              normalised |-> normalise(model), entry |-> lookupModel(model)]
  /\ UNCHANGED <<disk, clock, cachedEvents, loadedFrom, resp>>

CallComputeCostUSD(model, tokens) ==
  /\ call = NoCall
  /\ call' = [op |-> "computeCostUSD", model |-> model, tokens |-> tokens,
              cost |-> computeCostUSD(model, tokens[1], tokens[2], tokens[3], tokens[4])]
  /\ UNCHANGED <<disk, clock, cachedEvents, loadedFrom, resp>>

CallInferProvider(model) ==
  /\ call = NoCall
  /\ call' = [op |-> "inferProvider", model |-> model, provider |-> inferProvider(model)]
  /\ UNCHANGED <<disk, clock, cachedEvents, loadedFrom, resp>>

\* the call returns
Return ==
  /\ call # NoCall
  /\ call' = NoCall
  /\ UNCHANGED <<disk, clock, cachedEvents, loadedFrom, resp>>

----------------------------------------------------------------------------
(* Specifications *)

\* the load: files are written, the server starts and is refreshed
Next ==
  \/ \E f \in LogFiles, line \in LoadLines : WriteLog(f, line)
  \/ Tick
  \/ createApp
  \/ Refresh
  \/ Send

Spec == Init /\ [][Next]_vars

\* the queries: one session file is written with records of distinct request
\* ids, the server starts and answers
RequestIds == <<"q1", "q2", "q3", "q4", "q5", "q6">>

QueryLines(n) ==
  { AssistantLine(RequestIds[n], Opus46Dated, TRUE, <<Million, Million, 0, 0>>, "s1", Day1Noon),
    AssistantLine(RequestIds[n], Gpt4oMini, TRUE, <<1500, 10, 300, 1000>>, "s1", Day2Zero),
    AssistantLine(RequestIds[n], Opus46, TRUE, <<1, 0, 0, 0>>, "s2", Day2Last),
    AssistantLine(RequestIds[n], Gpt4oMini, TRUE, <<0, 2000, 0, 0>>, "s2", Day2LastMs),
    AssistantLine(RequestIds[n], Opus46, TRUE, <<1000, 1000, 1000, 1000>>, "s3", Day3Zero),
    AssistantLine(RequestIds[n], UnknownModel, TRUE, <<7, 7, 7, 7>>, Null, Day2Noon) }

DateInputs == { << >>, Day2 }

PageInputs  == { 0 - 1, 0, DefaultPage, 2, 3 }
LimitInputs == { 0 - 1, 0, 1, 2, DefaultLimit }

NoFilter ==
  [page |-> DefaultPage, limit |-> DefaultLimit, model |-> << >>, provider |-> Null,
   from |-> << >>, to |-> << >>, session_id |-> Null, sort |-> Null]

FilterInputs ==
  { NoFilter,
    [NoFilter EXCEPT !.sort = "cost"],
    [NoFilter EXCEPT !.from = Day2],
    [NoFilter EXCEPT !.to = Day2, !.provider = "anthropic"],
    [NoFilter EXCEPT !.model = Gpt4oMini, !.session_id = "s2"] }

EventsInputs ==
  { [f EXCEPT !.page = p, !.limit = l] : f \in FilterInputs, p \in PageInputs, l \in LimitInputs }

NextQuery ==
  \/ \E line \in QueryLines(TotalLines(disk) + 1) : WriteLog("a.jsonl", line)
  \/ createApp
  \/ Refresh
  \/ resp = NoResp /\ \E from \in DateInputs, to \in DateInputs : Overview(from, to)
  \/ resp = NoResp /\ \E opts \in EventsInputs : Events(opts)
  \/ Send

SpecQuery == Init /\ [][NextQuery]_vars

\* the five aggregations, each on the same session file
SessionsLimitInputs == { 0 - 1, 0, 1, 2, DefaultSessionsLimit }

AggregateEventsInputs == { NoFilter, [NoFilter EXCEPT !.sort = "cost"],
                           [NoFilter EXCEPT !.from = Day2] }

NextAggregate ==
  \/ \E line \in QueryLines(TotalLines(disk) + 1) : WriteLog("a.jsonl", line)
  \/ createApp
  \/ resp = NoResp /\ \E from \in DateInputs, to \in DateInputs : Overview(from, to)
  \/ resp = NoResp /\ \E from \in DateInputs, to \in DateInputs : Timeseries(from, to)
  \/ resp = NoResp /\ \E from \in DateInputs, to \in DateInputs, limit \in SessionsLimitInputs :
                         Sessions(from, to, limit)
  \/ resp = NoResp /\ \E from \in DateInputs, to \in DateInputs : Projects(from, to)
  \/ resp = NoResp /\ \E opts \in AggregateEventsInputs : Events(opts)
  \/ Send

SpecAggregate == Init /\ [][NextAggregate]_vars

\* the running server: the tool goes on writing the session file while
\* refreshes and queries are served in any order
ServeLines(n) ==
  { AssistantLine(RequestIds[n], Opus46, TRUE, <<1000, 1000, 1000, 1000>>, "s1", Day2Noon),
    AssistantLine(RequestIds[n], Gpt4oMini, TRUE, <<1500, 10, 300, 1000>>, "s2", Day1Noon),
    OtherLine("null") }

NextServe ==
  \/ \E line \in ServeLines(TotalLines(disk) + 1) : WriteLog("a.jsonl", line)
  \/ \E line \in ServeLines(TotalLines(disk) + 1) : AppendLog("a.jsonl", line)
  \/ Tick
  \/ createApp
  \/ Refresh
  \/ resp = NoResp /\ \E to \in DateInputs : Overview(<< >>, to)
  \/ resp = NoResp /\ \E to \in DateInputs : Timeseries(<< >>, to)
  \/ resp = NoResp /\ \E to \in DateInputs : Sessions(<< >>, to, DefaultSessionsLimit)
  \/ resp = NoResp /\ \E to \in DateInputs : Projects(<< >>, to)
  \/ resp = NoResp /\ \E opts \in AggregateEventsInputs : Events(opts)
  \/ Send

SpecServe == Init /\ [][NextServe]_vars

\* the prompts: user records with a string, with text and tool-result items,
\* with tool results only and with a text longer than the limit, among
\* assistant records that emit, are skipped or are duplicates
ToolResultItem == [type |-> "tool_result", text |-> <<"o", "u", "t">>]

LongText == [i \in 1..(PromptLimit + 2) |->
               IF i = 1 THEN " " ELSE IF i <= PromptLimit + 1 THEN "x" ELSE "y"]

PromptLines ==
  { UserLine([kind |-> "string", text |-> <<" ", "h", "i", " ">>, items |-> << >>]),
    UserLine([kind |-> "array", text |-> << >>,
              items |-> << [type |-> "text", text |-> <<" ", "a", " ">>],
                           ToolResultItem,
                           [type |-> "text", text |-> <<"b">>] >>]),
    UserLine([kind |-> "array", text |-> << >>, items |-> << ToolResultItem >>]),
    UserLine([kind |-> "string", text |-> LongText, items |-> << >>]),
    AssistantLine("r1", Opus46, TRUE, <<1, 1, 0, 0>>, "s1", Day2Noon),
    AssistantLine("r1", Synthetic, TRUE, <<0, 0, 0, 0>>, "s1", Day1Noon),
    AssistantLine("r2", Gpt4oMini, TRUE, <<1, 1, 0, 0>>, "s1", Day2Zero) }

NextPrompt ==
  \/ \E f \in LogFiles, line \in PromptLines : WriteLog(f, line)
  \/ createApp

SpecPrompt == Init /\ [][NextPrompt]_vars

\* the exported functions of pricing.js, called on their own
NextPricing ==
  \/ call = NoCall /\ \E model \in ModelInputs : CallLookupModel(model)
  \/ call = NoCall /\ \E model \in ModelInputs, tokens \in TokenInputs :
                        CallComputeCostUSD(model, tokens)
  \/ call = NoCall /\ \E model \in ModelInputs : CallInferProvider(model)
  \/ Return

SpecPricing == Init /\ [][NextPricing]_vars

----------------------------------------------------------------------------
(* Properties of the load (Spec) *)

RECURSIVE LinesOfEntries(_, _)
LinesOfEntries(entries, d) ==
  IF entries = << >> THEN << >>
  ELSE LET ent == Head(entries)
       IN  (IF ent.isFile /\ ent.jsonl /\ ent.readable THEN d[ent.name] ELSE << >>)
             \o LinesOfEntries(Tail(entries), d)

RECURSIVE LinesOfSlugs(_, _)
LinesOfSlugs(slugDirs, d) ==
  IF slugDirs = << >> THEN << >>
  ELSE (IF Head(slugDirs).readable THEN LinesOfEntries(Head(slugDirs).entries, d) ELSE << >>)
         \o LinesOfSlugs(Tail(slugDirs), d)

\* every line of every log file that is read, in the order of the scan
LinesInScanOrder(d) == LinesOfSlugs(ProjectsDir, d)

\* the cache holds what loadAllEvents returned for loadedFrom
Loaded == cachedEvents.loaded /\ ~loadedFrom.threw

EventsWithId(id) ==
  {i \in 1..Len(cachedEvents.events) : cachedEvents.events[i].request_id = id}

\* C1: no two events of a loaded collection have the same request_id.
C1_UniqueRequestIds ==
  cachedEvents.loaded =>
    \A i, j \in 1..Len(cachedEvents.events) :
      i # j => cachedEvents.events[i].request_id # cachedEvents.events[j].request_id

IsUsageRecord(l) ==
  l.json = "object" /\ l.type = "assistant" /\ l.message /\ l.usage /\ l.id # Null

\* a request id is written in both files, and two events are loaded
C1_Witness ==
  /\ Loaded
  /\ Len(cachedEvents.events) >= 2
  /\ \E i \in 1..Len(loadedFrom.disk["a.jsonl"]), j \in 1..Len(loadedFrom.disk["b.jsonl"]) :
       /\ IsUsageRecord(loadedFrom.disk["a.jsonl"][i])
       /\ IsUsageRecord(loadedFrom.disk["b.jsonl"][j])
       /\ loadedFrom.disk["a.jsonl"][i].id = loadedFrom.disk["b.jsonl"][j].id
       /\ EventsWithId(loadedFrom.disk["a.jsonl"][i].id) # {}

\* the assistant records with usage data and request id `id`, in scan order
UsageRecords(id) ==
  LET Is(l) == IsUsageRecord(l) /\ l.id = id
  IN  SelectSeq(LinesInScanOrder(loadedFrom.disk), Is)

\* event e carries the fields of record l
FieldsOf(e, l) ==
  /\ e.request_id = l.id
  /\ e.model = l.model
  /\ e.session_id = l.sessionId
  /\ e.occurred_at = (IF l.timestamp # << >> THEN l.timestamp ELSE loadedFrom.now)
  /\ e.input_tokens = l.input_tokens
  /\ e.output_tokens = l.output_tokens
  /\ e.cache_creation_tokens = l.cache_creation_input_tokens
  /\ e.cache_read_tokens = l.cache_read_input_tokens

RequestIdsOnDisk == {l.id : l \in {LinesInScanOrder(loadedFrom.disk)[i] :
                                     i \in 1..Len(LinesInScanOrder(loadedFrom.disk))}}

Emitted == ScanAll(loadedFrom.disk, loadedFrom.now).events

PositionIn(events, id) == CHOOSE i \in 1..Len(events) : events[i].request_id = id

\* sorted is the stable ascending sort by occurred_at of emitted
IsStableSortOf(sorted, emitted) ==
  /\ Len(sorted) = Len(emitted)
  /\ \A i \in 1..Len(emitted) : \E j \in 1..Len(sorted) : sorted[j] = emitted[i]
  /\ \A i, j \in 1..Len(sorted) :
       i < j =>
         /\ ~StrLess(sorted[j].occurred_at, sorted[i].occurred_at)
         /\ sorted[i].occurred_at = sorted[j].occurred_at =>
              PositionIn(emitted, sorted[i].request_id)
                < PositionIn(emitted, sorted[j].request_id)

\* C3: the collection loadAllEvents returns is the stable ascending sort by
\* occurred_at of the events emitted during the scan.
C3_StableSortByOccurredAt ==
  Loaded => IsStableSortOf(cachedEvents.events, Emitted)

\* three events, two of them at the same instant, emitted out of order
C3_Witness ==
  /\ Loaded
  /\ Len(cachedEvents.events) >= 3
  /\ cachedEvents.events # Emitted
  /\ \E i \in 1..(Len(cachedEvents.events) - 1) :
       cachedEvents.events[i].occurred_at = cachedEvents.events[i + 1].occurred_at

\* C4: every event of a loaded collection has cost_usd >= 0, whatever model
\* string and token counts its log record carries.
C4_CostNonNegative ==
  cachedEvents.loaded =>
    \A i \in 1..Len(cachedEvents.events) :
      ~CostLess(cachedEvents.events[i].cost_usd, CostZero)

\* C10: the load never fails as a whole because of one bad file or line: it
\* completes without raising, whatever a single line holds.
C10_LoadNeverRaises ==
  /\ ~loadedFrom.threw
  /\ resp.op = "refresh" => resp.status = 200

----------------------------------------------------------------------------
(* Properties of pricing.js (SpecPricing) *)

\* tokens / 1,000,000 * rate summed over the four categories, a null rate
\* counting as 0
ReferenceCost(entry, tokens) ==
  LET Rate(r) == IF r = NullRate THEN 0 ELSE r
      rates   == <<entry.input, entry.output, Rate(entry.cache_write), Rate(entry.cache_read)>>
      Term(k) == TokenCost(tokens[k], rates[k])
  IN  CostAdd(Term(1), CostAdd(Term(2), CostAdd(Term(3), Term(4))))

USD(n) == [micro |-> n * Million, nano |-> 0]

\* C5: computeCostUSD is 0 when lookupModel finds no entry and the reference
\* formula otherwise; claude-opus-4-6-20250601 with 1,000,000 input and
\* 1,000,000 output tokens costs 30 USD and unknown-model-x costs 0.
C5_CostIsReferenceFormula ==
  call.op = "computeCostUSD" =>
    /\ lookupModel(call.model) = NoEntry => call.cost = CostZero
    /\ lookupModel(call.model) # NoEntry =>
         call.cost = ReferenceCost(lookupModel(call.model), call.tokens)
    /\ (call.model = Opus46Dated /\ call.tokens = <<Million, Million, 0, 0>>) =>
         call.cost = USD(30)
    /\ call.model = UnknownModel => call.cost = CostZero

\* the 30 USD scenario is computed
C5_Witness ==
  /\ call.op = "computeCostUSD"
  /\ call.model = Opus46Dated
  /\ call.tokens = <<Million, Million, 0, 0>>
  /\ call.cost = USD(30)

\* C6: normalising the normalised model name gives the same string as
\* normalising once.
C6_NormaliseIdempotent ==
  call.op = "lookupModel" => normalise(call.normalised) = call.normalised

----------------------------------------------------------------------------
(* Properties of the queries (SpecQuery) *)

RECURSIVE SumCost(_)
SumCost(rows) ==
  IF rows = << >> THEN CostZero ELSE CostAdd(Head(rows).cost_usd, SumCost(Tail(rows)))

RECURSIVE SumRequests(_)
SumRequests(rows) ==
  IF rows = << >> THEN 0 ELSE Head(rows).requests + SumRequests(Tail(rows))

Min(a, b) == IF a < b THEN a ELSE b
Max(a, b) == IF a > b THEN a ELSE b

\* n = ceil(total / limit), as a fact of arithmetic
IsCeilOf(n, total, limit) ==
  \/ limit > 0 /\ n * limit >= total /\ (n - 1) * limit < total
  \/ limit < 0 /\ n * limit <= total /\ (n - 1) * limit > total

\* C8, as claimed: for every page and limit, with offset = (page-1)*limit,
\* rows.length = min(limit, total - offset) and pages = ceil(total/limit).
C8_PageLengthIsMin ==
  resp.op = "events" =>
    LET offset == (resp.body.page - 1) * resp.body.limit
    IN  /\ Len(resp.body.rows) = Min(resp.body.limit, resp.body.total - offset)
        /\ resp.body.pages.kind = "number"
        /\ IsCeilOf(resp.body.pages.n, resp.body.total, resp.body.limit)

\* C8, amended: for page >= 1 and limit >= 1, with offset = (page-1)*limit,
\* rows.length = max(0, min(limit, total - offset)) and pages = ceil(total/limit).
C8_PageLengthIsClampedMin ==
  (resp.op = "events" /\ resp.body.page >= 1 /\ resp.body.limit >= 1) =>
    LET offset == (resp.body.page - 1) * resp.body.limit
    IN  /\ Len(resp.body.rows) = Max(0, Min(resp.body.limit, resp.body.total - offset))
        /\ resp.body.pages.kind = "number"
        /\ IsCeilOf(resp.body.pages.n, resp.body.total, resp.body.limit)

\* a page past the last one is asked for: three events, pages of two, page 3
C8_Witness ==
  /\ resp.op = "events"
  /\ resp.body.total = 3
  /\ resp.body.limit = 2
  /\ resp.body.page = 3
  /\ resp.body.rows = << >>
  /\ resp.body.pages = [kind |-> "number", n |-> 2]

\* the calendar day of a timestamp
DayOf(occurred_at) == SubSeq(occurred_at, 1, Len(Day1))

\* from <= d <= to, an absent bound not constraining
InDayRange(d, from, to) ==
  /\ from = << >> \/ ~StrLess(d, from)
  /\ to = << >> \/ ~StrLess(to, d)

\* C9: the date filter keeps an event if and only if its occurred_at falls on
\* a day d with from <= d <= to: every instant of to's day is included.
C9_FilterInclusiveByDay ==
  resp.op = "overview" =>
    resp.body.totals.total_requests =
      Cardinality({i \in 1..Len(cachedEvents.events) :
                     InDayRange(DayOf(cachedEvents.events[i].occurred_at), resp.from, resp.to)})

----------------------------------------------------------------------------
(* Properties of the running server (SpecServe) *)

QueryOps == {"overview", "timeseries", "sessions", "projects", "events"}

\* the array the load recorded in src gave the cache: what loadAllEvents
\* returned, or the empty array createApp assigns when the load raised
WholeLoad(src) ==
  IF src.threw THEN << >> ELSE loadAllEvents(src.disk, src.now).events

\* the answer to the request of resp, computed from events
AnswerFrom(events) ==
  CASE resp.op = "overview"   -> computeOverview(events, resp.from, resp.to)
    [] resp.op = "timeseries" -> computeTimeseries(events, resp.from, resp.to)
    [] resp.op = "sessions"   -> computeTopSessions(events, resp.from, resp.to, resp.limit)
    [] resp.op = "projects"   -> computeProjects(events, resp.from, resp.to)
    [] resp.op = "events"     -> computeEvents(events, resp.opts)

\* C11: in any order of queries, refreshes and writes to the files, the cache
\* holds one whole result of a load (never a part of one, never old and new
\* events together), and every query response is computed from that result.
C11_QueriesReadOneWholeLoad ==
  /\ cachedEvents.loaded => cachedEvents.events = WholeLoad(loadedFrom)
  /\ resp.op \in QueryOps => resp.body = AnswerFrom(WholeLoad(loadedFrom))

\* a query is answered after a refresh replaced a non-empty collection by a
\* longer one, while the file has grown again since that refresh
C11_Witness ==
  /\ resp.op \in QueryOps
  /\ loadedFrom.now = ClockTimes[2]
  /\ ~loadedFrom.threw
  /\ Len(cachedEvents.events) >= 2
  /\ loadedFrom.disk # disk

----------------------------------------------------------------------------
(* More properties of the load (Spec) *)

\* C12: two loads of the same files, at any two times, return collections
\* that are equal element by element.
C12_LoadIdempotent ==
  Loaded =>
    \A t \in 1..Len(ClockTimes) :
      loadAllEvents(loadedFrom.disk, ClockTimes[t]).events = cachedEvents.events

----------------------------------------------------------------------------
(* Properties of the aggregations (SpecAggregate) *)

SessionKeys(events) == {SessionKey(events[i]) : i \in 1..Len(events)}

\* the summed cost_usd of the events of a session
SessionCost(events, key) ==
  LET InSession(e) == SessionKey(e) = key
  IN  SumCost(SelectSeq(events, InSession))

\* rows are the n costliest session groups of the date-filtered events, in
\* the order of non-increasing summed cost
IsTopSessions(rows, n) ==
  LET filtered == filterByDate(cachedEvents.events, resp.from, resp.to)
      keys     == SessionKeys(filtered)
      KeyOf(i) == SessionKey(rows[i])
      returned == {KeyOf(i) : i \in 1..Len(rows)}
  IN  /\ Len(rows) = n
      /\ returned \subseteq keys
      /\ Cardinality(returned) = Len(rows)
      /\ \A i \in 1..Len(rows) : rows[i].cost_usd = SessionCost(filtered, KeyOf(i))
      /\ \A i, j \in 1..Len(rows) :
           i < j => ~CostLess(rows[i].cost_usd, rows[j].cost_usd)
      /\ \A k \in keys \ returned : \A i \in 1..Len(rows) :
           ~CostLess(rows[i].cost_usd, SessionCost(filtered, k))

NumberOfSessions ==
  Cardinality(SessionKeys(filterByDate(cachedEvents.events, resp.from, resp.to)))

\* C14, as claimed: for every limit, computeTopSessions returns
\* min(limit, number of sessions) session groups of the date-filtered events,
\* ordered by non-increasing summed cost, no omitted session costing more.
C14_TopSessionsByCost ==
  resp.op = "sessions" =>
    IsTopSessions(resp.body, Min(resp.limit, NumberOfSessions))

\* C14, amended: the same for every limit >= 0.
C14_TopSessionsByCostFromZero ==
  (resp.op = "sessions" /\ resp.limit >= 0) =>
    IsTopSessions(resp.body, Min(resp.limit, NumberOfSessions))

\* limit 1 over three sessions of different cost: only the costliest one,
\* of 30 USD, is returned
C14_Witness ==
  /\ resp.op = "sessions"
  /\ resp.limit = 1
  /\ resp.from = << >> /\ resp.to = << >>
  /\ NumberOfSessions = 3
  /\ Len(resp.body) = 1
  /\ resp.body[1].cost_usd = USD(30)
  /\ \A k \in SessionKeys(cachedEvents.events) :
       k # SessionKey(resp.body[1]) =>
         CostLess(SessionCost(cachedEvents.events, k), USD(30))

----------------------------------------------------------------------------
(* Properties of the prompts (SpecPrompt) *)

\* the plain text of a user record: the string, or the text items only, each
\* trimmed, joined by spaces
PlainText(content) ==
  LET IsText(item) == item.type = "text"
      texts        == SelectSeq(content.items, IsText)
  IN  IF content.kind = "string" THEN content.text
      ELSE IF content.kind = "array"
        THEN JoinSpace([i \in 1..Len(texts) |-> trim(texts[i].text)])
      ELSE << >>

\* the prompt a user record gives: its plain text, trimmed, at most 400
\* characters; empty when it gives none
PromptOf(l) ==
  IF l.json = "object" /\ l.type = "user" /\ l.message
    THEN SubSeq(trim(PlainText(l.content)), 1, Min(PromptLimit, Len(trim(PlainText(l.content)))))
    ELSE << >>

\* the place (file and line) of the record that emitted the event of this
\* request id: the first usage record with the id in scan order
RecordOf(id) ==
  LET InFile(f) == {i \in 1..Len(loadedFrom.disk[f]) :
                      IsUsageRecord(loadedFrom.disk[f][i]) /\ loadedFrom.disk[f][i].id = id}
      First(f)  == CHOOSE i \in InFile(f) : \A j \in InFile(f) : i <= j
  IN  IF InFile("a.jsonl") # {} THEN [file |-> "a.jsonl", line |-> First("a.jsonl")]
      ELSE [file |-> "b.jsonl", line |-> First("b.jsonl")]

\* the prompt of the latest user record with a non-empty prompt before line
\* n of file f, or empty
PromptBefore(f, n) ==
  LET given == {j \in 1..(n - 1) : PromptOf(loadedFrom.disk[f][j]) # << >>}
  IN  IF given = {} THEN << >>
      ELSE PromptOf(loadedFrom.disk[f][CHOOSE j \in given : \A k \in given : k <= j])

\* C15: the prompt_text of every event is the text (plain-text parts only,
\* trimmed, at most 400 characters) of the latest user record with non-empty
\* text before the event's record in the same file, or none.
C15_PromptIsLatestHumanText ==
  Loaded =>
    \A i \in 1..Len(cachedEvents.events) :
      LET e  == cachedEvents.events[i]
          at == RecordOf(e.request_id)
      IN  /\ e.prompt_text = PromptBefore(at.file, at.line)
          /\ Len(e.prompt_text) <= PromptLimit

\* an event whose prompt was cut to 400 characters, a tool-result-only user
\* record standing between that prompt and the event's record
C15_Witness ==
  /\ Loaded
  /\ \E i \in 1..Len(cachedEvents.events) :
       LET e  == cachedEvents.events[i]
           at == RecordOf(e.request_id)
       IN  /\ Len(e.prompt_text) = PromptLimit
           /\ at.line = 3
           /\ loadedFrom.disk[at.file][2].type = "user"
           /\ PromptOf(loadedFrom.disk[at.file][2]) = << >>

----------------------------------------------------------------------------
(* More properties of pricing.js (SpecPricing) *)

\* p is a proper prefix of q
IsProperPrefix(p, q) == Len(p) < Len(q) /\ startsWith(q, p)

\* of two entries, one prefix a proper prefix of the other, the longer is
\* the earlier in the table
MostSpecificFirst ==
  \A i, j \in 1..Len(PRICING) :
    IsProperPrefix(PRICING[i].prefix, PRICING[j].prefix) => j < i

\* the entries whose prefix the name starts with
Matching(normalised) ==
  {i \in 1..Len(PRICING) : startsWith(normalised, PRICING[i].prefix)}

\* the entry with the longest prefix the name starts with, or none
LongestMatch(normalised) ==
  IF Matching(normalised) = {} THEN NoEntry
  ELSE PRICING[CHOOSE i \in Matching(normalised) :
                 \A j \in Matching(normalised) :
                   Len(PRICING[j].prefix) <= Len(PRICING[i].prefix)]

\* C16: the price table is ordered most-specific prefix first, so for every
\* model string the first match of lookupModel is the entry with the longest
\* matching prefix.
C16_FirstMatchIsLongestMatch ==
  /\ MostSpecificFirst
  /\ call.op = "lookupModel" =>
       call.entry = (IF call.model = << >> THEN NoEntry
                     ELSE LongestMatch(call.normalised))

\* a dated gpt-4o-mini name, which the prefixes gpt-4o-mini, gpt-4o and gpt-4
\* all match, is given the gpt-4o-mini entry
C16_Witness ==
  /\ call.op = "lookupModel"
  /\ call.model # call.normalised
  /\ call.normalised = Gpt4oMini
  /\ Cardinality(Matching(call.normalised)) = 3
  /\ call.entry.prefix = Gpt4oMini

----------------------------------------------------------------------------
(* Records without a usable model (Spec) *)

\* a usage record with a model that is present and not the placeholder
HasRealModel(l) == IsUsageRecord(l) /\ l.model # << >> /\ l.model # Synthetic

\* C17: a record without a usable model emits no event for that record only:
\* every request id that some usage record with a real model carries is
\* represented by exactly one event, wherever the other records stand.
C17_RealModelIdsLoaded ==
  Loaded =>
    \A id \in RequestIdsOnDisk :
      (\E i \in 1..Len(LinesInScanOrder(loadedFrom.disk)) :
         /\ HasRealModel(LinesInScanOrder(loadedFrom.disk)[i])
         /\ LinesInScanOrder(loadedFrom.disk)[i].id = id)
        => Cardinality(EventsWithId(id)) = 1

====
